---- MODULE Spec2Model ----
(***************************************************************************)
(* A model of the CDK application in src/infra: app.py (main), vpc.py      *)
(* (VpcStack) and s3.py (S3Stack and its construct-id sanitizer).           *)
(*                                                                         *)
(* Strings that the code inspects character by character (bucket names,    *)
(* construct ids) are sequences of one-character strings; strings that the *)
(* code only compares or tests for truth (environment names, regions) are   *)
(* plain strings, "" being any falsy value (None or the empty string).     *)
(***************************************************************************)
EXTENDS Integers, Sequences, FiniteSets, TLC

\* ------------------------------------------------------------- bounds ---
\* Longest input string handed to the sanitizer.
MaxLen == 3
\* Longest "s3" list of an environment.
MaxEntries == 2
\* Largest configured vpc.max_azs.
MaxAzs == 3
\* Largest number of availability zones the region offers the stack.
MaxAvailAzs == 3

\* --------------------------------------------------------- characters ---
LowerChars ==
    << "a", "b", "c", "d", "e", "f", "g", "h", "i", "j", "k", "l", "m",
       "n", "o", "p", "q", "r", "s", "t", "u", "v", "w", "x", "y", "z" >>

UpperChars ==
    << "A", "B", "C", "D", "E", "F", "G", "H", "I", "J", "K", "L", "M",
       "N", "O", "P", "Q", "R", "S", "T", "U", "V", "W", "X", "Y", "Z" >>

DigitChars ==
    << "0", "1", "2", "3", "4", "5", "6", "7", "8", "9" >>

Range(t) ==
    { t[i] : i \in 1..Len(t) }

IndexOf(c, t) ==
    CHOOSE i \in 1..Len(t) : t[i] = c

\* str.isalnum() on one ASCII character.
IsAlnum(c) ==
    c \in Range(LowerChars) \cup Range(UpperChars) \cup Range(DigitChars)

\* str.upper() / str.lower() on one ASCII character.
upper(c) ==
    IF c \in Range(LowerChars) THEN UpperChars[IndexOf(c, LowerChars)] ELSE c

lower(c) ==
    IF c \in Range(UpperChars) THEN LowerChars[IndexOf(c, UpperChars)] ELSE c

\* s.replace(old, new) for one-character old and new.
replace(s, old, new) ==
    [ i \in 1..Len(s) |-> IF s[i] = old THEN new ELSE s[i] ]

\* s.split(sep) for a one-character sep: empty segments are kept, and the
\* empty string splits into one empty segment.
RECURSIVE split(_, _)
split(s, sep) ==
    IF \A i \in 1..Len(s) : s[i] # sep
    THEN << s >>
    ELSE LET k == CHOOSE i \in 1..Len(s) :
                    s[i] = sep /\ \A j \in 1..(i - 1) : s[j] # sep
         IN  << SubSeq(s, 1, k - 1) >> \o split(SubSeq(s, k + 1, Len(s)), sep)

\* str.capitalize(): the first character upper-cased, all the others
\* lower-cased.
capitalize(w) ==
    IF w = << >> THEN << >>
    ELSE << upper(w[1]) >> \o [ i \in 1..(Len(w) - 1) |-> lower(w[i + 1]) ]

\* "".join(word.capitalize() for word in parts if word)
RECURSIVE join_capitalized(_)
join_capitalized(parts) ==
    IF parts = << >> THEN << >>
    ELSE (IF Head(parts) # << >> THEN capitalize(Head(parts)) ELSE << >>)
         \o join_capitalized(Tail(parts))

\* S3Stack._sanitize_construct_id
_sanitize_construct_id(bucket_name) ==
    LET parts == split(replace(replace(bucket_name, ".", "_"), "-", "_"), "_")
    IN  join_capitalized(parts)

\* Every string over chars of length at most n.
RECURSIVE StringsUpTo(_, _)
StringsUpTo(chars, n) ==
    IF n = 0 THEN { << >> }
    ELSE LET shorter == StringsUpTo(chars, n - 1)
         IN  shorter \cup { Append(s, c) : s \in shorter, c \in chars }

\* The characters the sanitizer's inputs are drawn from: both letter cases,
\* a digit, the three characters that end a segment, and a character that
\* is none of these.
InputChars ==
    { "a", "B", "1", ".", "-", "_", " " }


\* ------------------------------------------------------ configuration ---
\* Bucket names of the "s3" entries: valid S3 bucket names, two of which
\* differ only in their separator, and one of which is another's name
\* followed by "-name".
BucketNames ==
    { << "a", "-", "b" >>,
      << "a", ".", "b" >>,
      << "a", "-", "b", "-", "n", "a", "m", "e" >>,
      << "l", "o", "g", "s", "-", "b", "u", "c", "k", "e", "t" >> }

\* One entry of the "s3" list. bucket_config.get("bucket_name") is << >>
\* when the key is absent or holds the empty string: the code only tests
\* that value for truth.
S3Entries ==
    { [bucket_name |-> n] : n \in BucketNames \cup { << >> } }

RECURSIVE ListsUpTo(_, _)
ListsUpTo(elems, n) ==
    IF n = 0 THEN { << >> }
    ELSE LET shorter == ListsUpTo(elems, n - 1)
         IN  shorter \cup { Append(l, e) : l \in shorter, e \in elems }

\* The "vpc" object of an environment: nonempty is the truth value of the
\* dict (an absent "vpc" key reads as the empty dict), has_max_azs whether
\* the key "max_azs" is in it. The other keys keep their defaults.
EmptyVpcConfig ==
    [nonempty |-> FALSE, has_max_azs |-> FALSE, max_azs |-> 0]

VpcConfigs ==
    { EmptyVpcConfig, [nonempty |-> TRUE, has_max_azs |-> FALSE, max_azs |-> 0] }
    \cup { [nonempty |-> TRUE, has_max_azs |-> TRUE, max_azs |-> n] :
             n \in 1..MaxAzs }

\* One environment's settings; region "" is an absent or empty "region".
EmptyEnvConfig ==
    [nonempty |-> FALSE, region |-> "", vpc |-> EmptyVpcConfig, s3 |-> << >>]

EnvConfigs ==
    { EmptyEnvConfig }
    \cup [ nonempty : { TRUE }, region : { "", "us-east-1" },
           vpc : VpcConfigs, s3 : ListsUpTo(S3Entries, MaxEntries) ]

\* cdk.json: absent, not JSON, or {"context": {env: entry}}.
CdkJsonFiles ==
    { [file |-> f, env |-> "", entry |-> EmptyEnvConfig] :
        f \in { "missing", "invalid" } }
    \cup [ file : { "ok" }, env : { "development", "staging" },
           entry : EnvConfigs ]

\* The process environment: any subset of the two variables main reads,
\* each with one value when it is set.
Environs ==
    { [ n \in S |-> IF n = "CDK_ENV" THEN "production" ELSE "123456789012" ] :
        S \in SUBSET { "CDK_ENV", "CDK_DEFAULT_ACCOUNT" } }

\* The value of the CDK context key "env": "" when it is not given.
ContextEnvs ==
    { "", "staging" }

\* The three tiers of the subnet_configuration handed to ec2.Vpc.
SubnetTiers ==
    { "PUBLIC", "PRIVATE_WITH_EGRESS", "PRIVATE_ISOLATED" }


\* -------------------------------------------------------------- state ---
VARIABLES
    cdk_json,        \* the content of cdk.json
    context_env,     \* app.node.try_get_context("env"), "" when None
    environ,         \* os.environ
    pc,              \* the statement main is at
    error,           \* the exception that ended the run, "" when none
    env_name,        \* main's env_name
    aws_account_id,  \* main's aws_account_id
    region,          \* main's region
    vpc_stack,       \* what VpcStack has declared
    s3_configs,      \* S3Stack's s3_configs
    s3_index,        \* the position of the for loop in s3_configs
    s3_scope,        \* the constructs declared in the S3Stack, in order
    s3_buckets,      \* the keys of self.buckets
    s3_sanitized,    \* each (bucket_name, construct_id) computed at line 43
    s3_skipped,      \* the number of entries skipped with a warning
    tags,            \* the tags set on the two stacks
    synth_count,     \* the number of calls of app.synth()
    trace,           \* the steps of main completed so far, in order
    san_pc,          \* _sanitize_construct_id called on its own:
    san_in,          \*   its argument,
    san_out,         \*   its result,
    san_twice        \*   and the result of the call on that result

main_vars ==
    << cdk_json, context_env, environ, pc, error, env_name, aws_account_id,
       region, vpc_stack, s3_configs, s3_index, s3_scope, s3_buckets,
       s3_sanitized, s3_skipped, tags, synth_count, trace >>

san_vars ==
    << san_pc, san_in, san_out, san_twice >>

vars ==
    << main_vars, san_vars >>

\* --------------------------------------------------------- VpcStack ---
NoSecurityGroup ==
    [allow_all_outbound |-> FALSE, ingress |-> { }]

NoVpcStack ==
    [built |-> FALSE, max_azs |-> 0, available_azs |-> 0, subnets |-> { },
     web_security_group |-> NoSecurityGroup,
     db_security_group |-> NoSecurityGroup,
     endpoints |-> { }, outputs |-> << >>]

\* vpc_config.get("max_azs", 2)
DefaultMaxAzs == 2

\* A faulty variant of MaxAzsOf: the default of ec2.Vpc itself, 3.
MaxAzsDefault3(vpc_config) ==
    IF vpc_config.has_max_azs THEN vpc_config.max_azs ELSE 3

MaxAzsOf(vpc_config) ==
    IF vpc_config.has_max_azs THEN vpc_config.max_azs ELSE DefaultMaxAzs

Min(a, b) ==
    IF a <= b THEN a ELSE b

\* ec2.Vpc(max_azs, subnet_configuration): one subnet of each tier in each
\* zone used. max_azs is a maximum: the Vpc construct uses the first max_azs
\* of the zones available to the stack, or all of them when there are fewer.
VpcSubnets(max_azs, available_azs) ==
    { [zone |-> z, tier |-> t, cidr_mask |-> 24] :
        z \in 1..Min(max_azs, available_azs), t \in SubnetTiers }

\* The web security group and its two ingress rules.
WebSecurityGroup ==
    [allow_all_outbound |-> TRUE,
     ingress |-> { [peer |-> "any_ipv4", port |-> 80],
                   [peer |-> "any_ipv4", port |-> 443] }]

\* A faulty variant of DbIngressRules: the peer of the web group's rules.
DbIngressFromAnywhere(web_group_id) ==
    { [peer |-> "any_ipv4", port |-> 3306],
      [peer |-> "any_ipv4", port |-> 5432] }

\* The two add_ingress_rule calls on the database security group.
DbIngressRules(web_group_id) ==
    { [peer |-> web_group_id, port |-> 3306],
      [peer |-> web_group_id, port |-> 5432] }

DatabaseSecurityGroup(web_group_id) ==
    [allow_all_outbound |-> FALSE, ingress |-> DbIngressRules(web_group_id)]

\* VpcStack._create_vpc_endpoints
_create_vpc_endpoints ==
    { [id |-> "S3GatewayEndpoint", service |-> "S3",
       subnets |-> "PRIVATE_WITH_EGRESS"],
      [id |-> "DynamoDbGatewayEndpoint", service |-> "DYNAMODB",
       subnets |-> "PRIVATE_WITH_EGRESS"] }

VpcOutputs ==
    << "VpcId", "VpcCidr", "PublicSubnetIds", "PrivateSubnetIds",
       "WebSecurityGroupId", "DatabaseSecurityGroupId" >>

\* config.get("context", {}).get(env_name, {})
EnvConfigOf(json, name) ==
    IF json.file = "ok" /\ json.env = name THEN json.entry ELSE EmptyEnvConfig

\* load_config / _load_config: the exception raised, "" when it returns.
LoadConfigError(json) ==
    CASE json.file = "missing" -> "FileNotFoundError"
      [] json.file = "invalid" -> "InvalidJSON"
      [] OTHER -> ""


\* ---------------------------------------------------------- S3Stack ---
NoBucketProps ==
    [versioned |-> FALSE, encryption |-> "", block_public_access |-> "",
     removal_policy |-> ""]

\* The keyword arguments of s3.Bucket(...) at lines 46-54.
BucketProps ==
    [versioned |-> TRUE, encryption |-> "S3_MANAGED",
     block_public_access |-> "BLOCK_ALL", removal_policy |-> "RETAIN"]

BucketConstruct(construct_id, bucket_name) ==
    [kind |-> "Bucket", id |-> construct_id, bucket_name |-> bucket_name,
     value |-> "", props |-> BucketProps]

\* A CfnOutput whose id is the construct id followed by suffix and whose
\* value is that attribute of the bucket.
OutputConstruct(construct_id, suffix, attribute, bucket_name) ==
    [kind |-> "CfnOutput", id |-> construct_id \o suffix,
     bucket_name |-> bucket_name, value |-> attribute,
     props |-> NoBucketProps]

ScopeIds(scope) ==
    { scope[i].id : i \in 1..Len(scope) }

\* The constructs one iteration of the loop declares, in order: the bucket,
\* then its two outputs.
BucketDeclarations(construct_id, bucket_name) ==
    << BucketConstruct(construct_id, bucket_name),
       OutputConstruct(construct_id, << "N", "a", "m", "e" >>,
                       "bucket_name", bucket_name),
       OutputConstruct(construct_id, << "A", "r", "n" >>,
                       "bucket_arn", bucket_name) >>

\* Declaring constructs one after the other in a scope: the ids of the
\* children of a scope are unique, and the constructor of a construct whose
\* id the scope already holds raises. The result is the scope with every
\* construct declared before the first that raises.
RECURSIVE DeclareAll(_, _)
DeclareAll(scope, constructs) ==
    IF constructs = << >> THEN [scope |-> scope, raised |-> FALSE]
    ELSE IF Head(constructs).id \in ScopeIds(scope)
         THEN [scope |-> scope, raised |-> TRUE]
         ELSE DeclareAll(Append(scope, Head(constructs)), Tail(constructs))

\* ------------------------------------------------------------ actions ---
Raise(exception) ==
    /\ error' = exception
    /\ pc' = "raised"

Step(name, next_pc) ==
    /\ trace' = Append(trace, name)
    /\ pc' = next_pc
    /\ error' = error

\* main, lines 30-33: config = load_config()
MainLoadConfig ==
    /\ pc = "load_config"
    /\ IF LoadConfigError(cdk_json) # ""
       THEN Raise(LoadConfigError(cdk_json)) /\ UNCHANGED trace
       ELSE Step("load_config", "env_name")
    /\ UNCHANGED << cdk_json, context_env, environ, env_name, aws_account_id,
                    region, vpc_stack, s3_configs, s3_index, s3_scope,
                    s3_buckets, s3_sanitized, s3_skipped, tags, synth_count,
                    san_vars >>

\* main, line 36: the context value, or CDK_ENV, or "development"
MainEnvName ==
    /\ pc = "env_name"
    /\ env_name' = IF context_env # "" THEN context_env
                   ELSE IF "CDK_ENV" \in DOMAIN environ THEN environ["CDK_ENV"]
                   ELSE "development"
    /\ Step("env_name", "account")
    /\ UNCHANGED << cdk_json, context_env, environ, aws_account_id, region,
                    vpc_stack, s3_configs, s3_index, s3_scope, s3_buckets,
                    s3_sanitized, s3_skipped, tags, synth_count, san_vars >>

\* main, line 37: os.environ["CDK_DEFAULT_ACCOUNT"]
MainAccount ==
    /\ pc = "account"
    /\ IF "CDK_DEFAULT_ACCOUNT" \in DOMAIN environ
       THEN /\ aws_account_id' = environ["CDK_DEFAULT_ACCOUNT"]
            /\ Step("account", "env_config")
       ELSE /\ Raise("KeyError")
            /\ UNCHANGED << aws_account_id, trace >>
    /\ UNCHANGED << cdk_json, context_env, environ, env_name, region,
                    vpc_stack, s3_configs, s3_index, s3_scope, s3_buckets,
                    s3_sanitized, s3_skipped, tags, synth_count, san_vars >>

\* main, lines 40-42: the environment's entry must be there and not empty
MainEnvConfig ==
    /\ pc = "env_config"
    /\ IF ~EnvConfigOf(cdk_json, env_name).nonempty
       THEN Raise("EnvironmentNotFound") /\ UNCHANGED trace
       ELSE Step("env_config", "region")
    /\ UNCHANGED << cdk_json, context_env, environ, env_name, aws_account_id,
                    region, vpc_stack, s3_configs, s3_index, s3_scope,
                    s3_buckets, s3_sanitized, s3_skipped, tags, synth_count,
                    san_vars >>

\* A faulty variant of MainRegion: the missing region is recorded and the
\* run goes on.
MainRegionGoesOn ==
    /\ pc = "region"
    /\ region' = EnvConfigOf(cdk_json, env_name).region
    /\ error' = IF region' = "" THEN "RegionNotFound" ELSE error
    /\ trace' = Append(trace, "region")
    /\ pc' = "vpc_stack"
    /\ UNCHANGED << cdk_json, context_env, environ, env_name, aws_account_id,
                    vpc_stack, s3_configs, s3_index, s3_scope, s3_buckets,
                    s3_sanitized, s3_skipped, tags, synth_count, san_vars >>

\* main, lines 45-55: the region of the environment
MainRegion ==
    /\ pc = "region"
    /\ region' = EnvConfigOf(cdk_json, env_name).region
    /\ IF region' = ""
       THEN Raise("RegionNotFound") /\ UNCHANGED trace
       ELSE Step("region", "vpc_stack")
    /\ UNCHANGED << cdk_json, context_env, environ, env_name, aws_account_id,
                    vpc_stack, s3_configs, s3_index, s3_scope, s3_buckets,
                    s3_sanitized, s3_skipped, tags, synth_count, san_vars >>

\* main, lines 58-64: VpcStack(...), that is VpcStack.__init__. The number
\* of zones available to the stack is the environment's.
VpcStackInit ==
    /\ pc = "vpc_stack"
    /\ LET env_config == EnvConfigOf(cdk_json, env_name)
           vpc_config == env_config.vpc
       IN  IF LoadConfigError(cdk_json) # ""
           THEN Raise(LoadConfigError(cdk_json)) /\ UNCHANGED << vpc_stack, trace >>
           ELSE IF ~env_config.nonempty
           THEN Raise("EnvironmentNotFound") /\ UNCHANGED << vpc_stack, trace >>
           ELSE IF ~vpc_config.nonempty
           THEN Raise("VpcConfigNotFound") /\ UNCHANGED << vpc_stack, trace >>
           ELSE /\ \E available_azs \in 1..MaxAvailAzs :
                     vpc_stack' =
                       [built |-> TRUE,
                        max_azs |-> MaxAzsOf(vpc_config),
                        available_azs |-> available_azs,
                        subnets |-> VpcSubnets(MaxAzsOf(vpc_config), available_azs),
                        web_security_group |-> WebSecurityGroup,
                        db_security_group |->
                            DatabaseSecurityGroup("WebSecurityGroup"),
                        endpoints |-> _create_vpc_endpoints,
                        outputs |-> VpcOutputs]
                /\ Step("VpcStack", "s3_stack")
    /\ UNCHANGED << cdk_json, context_env, environ, env_name, aws_account_id,
                    region, s3_configs, s3_index, s3_scope, s3_buckets,
                    s3_sanitized, s3_skipped, tags, synth_count, san_vars >>

\* main, line 67, and S3Stack.__init__, lines 16-32: up to the loop
S3StackInit ==
    /\ pc = "s3_stack"
    /\ LET env_config == EnvConfigOf(cdk_json, env_name)
       IN  IF LoadConfigError(cdk_json) # ""
           THEN Raise(LoadConfigError(cdk_json))
                /\ UNCHANGED << s3_configs, s3_index >>
           ELSE IF ~env_config.nonempty
           THEN Raise("EnvironmentNotFound")
                /\ UNCHANGED << s3_configs, s3_index >>
           ELSE /\ s3_configs' = env_config.s3
                /\ s3_index' = 1
                /\ pc' = "s3_loop"
                /\ error' = error
    /\ UNCHANGED << cdk_json, context_env, environ, env_name, aws_account_id,
                    region, vpc_stack, s3_scope, s3_buckets, s3_sanitized,
                    s3_skipped, tags, synth_count, trace, san_vars >>

\* S3Stack.__init__, lines 34-77: one iteration of the loop
S3StackBucket ==
    /\ pc = "s3_loop"
    /\ s3_index <= Len(s3_configs)
    /\ LET bucket_name == s3_configs[s3_index].bucket_name
           construct_id == _sanitize_construct_id(bucket_name)
           declared == DeclareAll(s3_scope,
                                  BucketDeclarations(construct_id, bucket_name))
       IN  IF bucket_name = << >>
           THEN /\ s3_skipped' = s3_skipped + 1
                /\ s3_index' = s3_index + 1
                /\ pc' = pc
                /\ error' = error
                /\ UNCHANGED << s3_scope, s3_buckets, s3_sanitized >>
           ELSE /\ s3_sanitized' =
                     Append(s3_sanitized, << bucket_name, construct_id >>)
                /\ s3_scope' = declared.scope
                \* self.buckets[bucket_name] = bucket follows s3.Bucket(...)
                /\ s3_buckets' =
                     IF Len(declared.scope) > Len(s3_scope)
                     THEN s3_buckets \cup { bucket_name } ELSE s3_buckets
                /\ s3_skipped' = s3_skipped
                /\ IF declared.raised
                   THEN Raise("DuplicateConstruct") /\ s3_index' = s3_index
                   ELSE /\ s3_index' = s3_index + 1
                        /\ pc' = pc
                        /\ error' = error
    /\ UNCHANGED << cdk_json, context_env, environ, env_name, aws_account_id,
                    region, vpc_stack, s3_configs, tags, synth_count, trace,
                    san_vars >>

\* S3Stack.__init__, line 79: the loop is over and the constructor returns
S3StackDone ==
    /\ pc = "s3_loop"
    /\ s3_index > Len(s3_configs)
    /\ Step("S3Stack", "tags")
    /\ UNCHANGED << cdk_json, context_env, environ, env_name, aws_account_id,
                    region, vpc_stack, s3_configs, s3_index, s3_scope,
                    s3_buckets, s3_sanitized, s3_skipped, tags, synth_count,
                    san_vars >>

\* main, lines 76-79: three tags on each of the two stacks
MainTags ==
    /\ pc = "tags"
    /\ tags' = { << stack, "Environment", env_name >> :
                   stack \in { "VpcStack", "S3Stack" } }
               \cup { << stack, "Project", "pycon" >> :
                        stack \in { "VpcStack", "S3Stack" } }
               \cup { << stack, "Region", region >> :
                        stack \in { "VpcStack", "S3Stack" } }
    /\ Step("tags", "synth")
    /\ UNCHANGED << cdk_json, context_env, environ, env_name, aws_account_id,
                    region, vpc_stack, s3_configs, s3_index, s3_scope,
                    s3_buckets, s3_sanitized, s3_skipped, synth_count,
                    san_vars >>

\* main, lines 81-82: app.synth()
MainSynth ==
    /\ pc = "synth"
    /\ synth_count' = synth_count + 1
    /\ Step("synth", "done")
    /\ UNCHANGED << cdk_json, context_env, environ, env_name, aws_account_id,
                    region, vpc_stack, s3_configs, s3_index, s3_scope,
                    s3_buckets, s3_sanitized, s3_skipped, tags, san_vars >>

\* _sanitize_construct_id called on a string, and again on its result
SanitizeOnce ==
    /\ san_pc = "ready"
    /\ san_out' = _sanitize_construct_id(san_in)
    /\ san_pc' = "once"
    /\ UNCHANGED << main_vars, san_in, san_twice >>

SanitizeTwice ==
    /\ san_pc = "once"
    /\ san_twice' = _sanitize_construct_id(san_out)
    /\ san_pc' = "twice"
    /\ UNCHANGED << main_vars, san_in, san_out >>

\* ----------------------------------------------------- specifications ---
MainIdle ==
    /\ error = ""
    /\ env_name = ""
    /\ aws_account_id = ""
    /\ region = ""
    /\ vpc_stack = NoVpcStack
    /\ s3_configs = << >>
    /\ s3_index = 1
    /\ s3_scope = << >>
    /\ s3_buckets = { }
    /\ s3_sanitized = << >>
    /\ s3_skipped = 0
    /\ tags = { }
    /\ synth_count = 0
    /\ trace = << >>

\* A run of main: app.py is started with some cdk.json, some context and
\* some process environment.
Init ==
    /\ cdk_json \in CdkJsonFiles
    /\ context_env \in ContextEnvs
    /\ environ \in Environs
    /\ pc = "load_config"
    /\ MainIdle
    /\ san_pc = "off"
    /\ san_in = << >>
    /\ san_out = << >>
    /\ san_twice = << >>

Next ==
    \/ MainLoadConfig
    \/ MainEnvName
    \/ MainAccount
    \/ MainEnvConfig
    \/ MainRegion
    \/ VpcStackInit
    \/ S3StackInit
    \/ S3StackBucket
    \/ S3StackDone
    \/ MainTags
    \/ MainSynth

Spec ==
    Init /\ [][Next]_vars

\* The sanitizer alone, on every string over InputChars up to MaxLen.
SanInit ==
    /\ cdk_json = [file |-> "missing", env |-> "", entry |-> EmptyEnvConfig]
    /\ context_env = ""
    /\ environ = << >>
    /\ pc = "off"
    /\ MainIdle
    /\ san_pc = "ready"
    /\ san_in \in StringsUpTo(InputChars, MaxLen)
    /\ san_out = << >>
    /\ san_twice = << >>

SanNext ==
    \/ SanitizeOnce
    \/ SanitizeTwice

SanSpec ==
    SanInit /\ [][SanNext]_vars


\* ------------------------------------------------------------- claims ---
Text_my_bucket_name ==
    << "m", "y", "-", "b", "u", "c", "k", "e", "t", ".", "n", "a", "m", "e" >>

Text_MyBucketName ==
    << "M", "y", "B", "u", "c", "k", "e", "t", "N", "a", "m", "e" >>

\* The reference algorithm of the specification: '.' and '-' become the
\* separator, the string is split on it, empty segments are dropped, the
\* first letter of each segment is upper-cased and the rest of the segment
\* is left as it is, and the segments are concatenated.
RECURSIVE RefJoin(_)
RefJoin(parts) ==
    IF parts = << >> THEN << >>
    ELSE (IF Head(parts) = << >> THEN << >>
          ELSE << upper(Head(parts)[1]) >>
               \o SubSeq(Head(parts), 2, Len(Head(parts))))
         \o RefJoin(Tail(parts))

RefSanitize(x) ==
    RefJoin(split(replace(replace(x, ".", "_"), "-", "_"), "_"))

\* C1: _sanitize_construct_id is idempotent: sanitizing the result of a
\* call gives that result again.
C1_Idempotent ==
    san_pc = "twice" => san_twice = san_out

\* C2: for every input, _sanitize_construct_id returns what the reference
\* algorithm returns (only the first letter of a segment changes);
\* "my-bucket.name" gives "MyBucketName" and "" gives "".
C2_MatchesReference ==
    /\ san_pc \in { "once", "twice" } => san_out = RefSanitize(san_in)
    /\ _sanitize_construct_id(Text_my_bucket_name) = Text_MyBucketName
    /\ _sanitize_construct_id(<< >>) = << >>

\* C3: for every non-empty name, the identifier holds alphanumeric
\* characters only.
C3_Alphanumeric ==
    (san_pc \in { "once", "twice" } /\ san_in # << >>)
        => \A i \in 1..Len(san_out) : IsAlnum(san_out[i])

\* The entries of a list that have a bucket name, in list order.
NamedEntries(configs) ==
    SelectSeq(configs, LAMBDA c : c.bucket_name # << >>)

BucketsOf(scope) ==
    SelectSeq(scope, LAMBDA d : d.kind = "Bucket")

\* The entries the loop has passed.
Processed ==
    SubSeq(s3_configs, 1, s3_index - 1)

\* C4: S3Stack goes through the entries in list order, skips a nameless
\* entry without ending the run, and builds exactly one bucket for each
\* named entry: the loop never ends the run, and the buckets built are, in
\* order, those of the named entries passed so far.
C4_OneBucketPerNamedEntry ==
    /\ error # "DuplicateConstruct"
    /\ Len(BucketsOf(s3_scope)) = Len(NamedEntries(Processed))
    /\ \A i \in 1..Len(BucketsOf(s3_scope)) :
         BucketsOf(s3_scope)[i].bucket_name
             = NamedEntries(Processed)[i].bucket_name
    /\ s3_skipped = Len(Processed) - Len(NamedEntries(Processed))

\* C5: when the configuration has no entry, or an empty one, for the
\* resolved environment name, the run fails with the unknown-environment
\* error, and nothing is declared before that.
C5_UnknownEnvironmentFails ==
    ( /\ cdk_json.file = "ok"
      /\ pc \notin { "load_config", "env_name", "account", "env_config" }
      /\ ~EnvConfigOf(cdk_json, env_name).nonempty )
        => /\ error = "EnvironmentNotFound"
           /\ vpc_stack = NoVpcStack
           /\ s3_scope = << >>

FullTrace ==
    << "load_config", "env_name", "account", "env_config", "region",
       "VpcStack", "S3Stack", "tags", "synth" >>

\* C6: synthesis happens at most once, and only after the configuration
\* load, the environment and region resolution, the network builder, the
\* storage builder and the tagging of both stacks have completed without
\* error, in that order; a run that raised has not synthesized.
C6_SynthesisLast ==
    /\ synth_count <= 1
    /\ Len(trace) <= Len(FullTrace)
    /\ trace = SubSeq(FullTrace, 1, Len(trace))
    /\ synth_count = 1 <=> (Len(trace) = Len(FullTrace))
    /\ synth_count = 1 =>
         /\ error = ""
         /\ vpc_stack.built
         /\ \A stack \in { "VpcStack", "S3Stack" } :
              { t[2] : t \in { u \in tags : u[1] = stack } }
                  = { "Environment", "Project", "Region" }
    /\ error # "" => synth_count = 0

C6_Synthesized ==
    pc = "done" /\ synth_count = 1 /\ s3_buckets # { }

\* C7: the database security group of a network stack has no default
\* egress and exactly two ingress rules, on ports 3306 and 5432, each with
\* the web security group as its source, and none open to any address.
C7_DatabaseGroupClosed ==
    vpc_stack.built =>
        /\ ~vpc_stack.db_security_group.allow_all_outbound
        /\ Cardinality(vpc_stack.db_security_group.ingress) = 2
        /\ { r.port : r \in vpc_stack.db_security_group.ingress } = { 3306, 5432 }
        /\ \A r \in vpc_stack.db_security_group.ingress :
             r.peer = "WebSecurityGroup" /\ r.peer # "any_ipv4"

C7_NetworkBuilt ==
    vpc_stack.built /\ vpc_stack.db_security_group.ingress # { }

\* C8: every bucket declared by S3Stack is versioned, encrypted with
\* server-managed keys, closed to public access and retained on deletion,
\* and is followed by exactly two outputs, its name and its ARN.
C8_BucketsProtectedWithTwoOutputs ==
    \A i \in 1..Len(s3_scope) :
        s3_scope[i].kind = "Bucket" =>
            /\ s3_scope[i].props.versioned
            /\ s3_scope[i].props.encryption = "S3_MANAGED"
            /\ s3_scope[i].props.block_public_access = "BLOCK_ALL"
            /\ s3_scope[i].props.removal_policy = "RETAIN"
            /\ i + 2 <= Len(s3_scope)
            /\ s3_scope[i + 1].kind = "CfnOutput"
            /\ s3_scope[i + 1].value = "bucket_name"
            /\ s3_scope[i + 1].bucket_name = s3_scope[i].bucket_name
            /\ s3_scope[i + 2].kind = "CfnOutput"
            /\ s3_scope[i + 2].value = "bucket_arn"
            /\ s3_scope[i + 2].bucket_name = s3_scope[i].bucket_name
            /\ (i + 3 <= Len(s3_scope) => s3_scope[i + 3].kind = "Bucket")

\* The zone count the configuration asks for: vpc.max_azs, 2 when absent.
ConfiguredZones ==
    LET vpc_config == EnvConfigOf(cdk_json, env_name).vpc
    IN  IF vpc_config.has_max_azs THEN vpc_config.max_azs ELSE 2

\* C9 as stated: the number of subnets declared is the configured zone
\* count times the three tiers.
C9_SubnetsAreZonesTimesTiers ==
    vpc_stack.built =>
        Cardinality(vpc_stack.subnets) = ConfiguredZones * Cardinality(SubnetTiers)

\* C9 as amended: the number of subnets declared is three times the smaller
\* of the configured zone count (2 when absent) and the number of zones
\* available to the stack; with max_azs = 2 and at least two zones
\* available it is 6.
C9_SubnetsCappedByAvailableZones ==
    vpc_stack.built =>
        /\ Cardinality(SubnetTiers) = 3
        /\ Cardinality(vpc_stack.subnets)
             = 3 * Min(ConfiguredZones, vpc_stack.available_azs)
        /\ (ConfiguredZones = 2 /\ vpc_stack.available_azs >= 2)
             => Cardinality(vpc_stack.subnets) = 6

C9_TwoZonesSixSubnets ==
    /\ vpc_stack.built
    /\ EnvConfigOf(cdk_json, env_name).vpc.has_max_azs
    /\ ConfiguredZones = 2
    /\ Cardinality(vpc_stack.subnets) = 6

\* C10: two entries of one stack with distinct bucket names get distinct
\* construct identifiers, and no two constructs of the stack are declared
\* under one identifier.
C10_DistinctNamesDistinctIds ==
    /\ \A i, j \in 1..Len(s3_sanitized) :
         s3_sanitized[i][1] # s3_sanitized[j][1]
             => s3_sanitized[i][2] # s3_sanitized[j][2]
    /\ \A i, j \in 1..Len(s3_scope) :
         i # j => s3_scope[i].id # s3_scope[j].id

====
